---------------------------- MODULE Spec2Model ----------------------------
(***************************************************************************)
(* A model of exoatlas' derived-quantity layer                             *)
(* (src/exoatlas/populations/calculations/planetary.py): the gap-filling   *)
(* accessors that read the standardized table of a population and the      *)
(* element-wise merger _choose_calculation.                                *)
(*                                                                         *)
(* Numbers.  A numpy float is modelled as a fixed-point number: the        *)
(* integer k stands for k / Scale.  The three non-finite floats are NaN,   *)
(* PInf and NInf, and np.isfinite is IsFinite.  Arithmetic                 *)
(* follows the IEEE rules for the non-finite values and rounds finite      *)
(* results down to a multiple of 1 / Scale.                                *)
(*                                                                         *)
(* Units.  A Quantity column is held in the canonical units AU, yr, Msun,  *)
(* in which G / (4 pi^2) = 1; angles are whole degrees.  A conversion      *)
(* .to(unit) changes the representation of a physical quantity and not the *)
(* quantity, so it does not show at this level.                            *)
(*                                                                         *)
(* Arrays.  An array of the population is a function 1..N -> Num.  numpy   *)
(* arrays are mutable objects: `x = column.copy()` makes a new object,     *)
(* `x[mask] = v` writes into the object x names.  Every accessor therefore *)
(* runs on a heap (a function from references to arrays) whose references  *)
(* are the table's column names plus Local, the accessor's own array.      *)
(***************************************************************************)
EXTENDS Integers, Sequences, FiniteSets, TLC

\* number of records of the population
N == 2
\* fixed-point resolution: the integer k stands for k / Scale
Scale == 100

Idx == 1..N

\* a float: finite (f = "fin", v the fixed-point integer) or one of the three
\* non-finite values
Fin(k) == [f |-> "fin", v |-> k]
NaN == [f |-> "nan", v |-> 0]
PInf == [f |-> "inf", v |-> 0]
NInf == [f |-> "-inf", v |-> 0]

\* np.isfinite, np.isnan
IsFinite(x) == x.f = "fin"
IsNaN(x) == x.f = "nan"

\* n as a fixed-point number, and the fraction n / d
Fx(n) == Fin(n * Scale)
Frac(n, d) == Fin((n * Scale) \div d)

Sign(x) == IF x.f = "inf" THEN 1
           ELSE IF x.f = "-inf" THEN -1
           ELSE IF x.v > 0 THEN 1 ELSE IF x.v < 0 THEN -1 ELSE 0

Abs(k) == IF k < 0 THEN -k ELSE k

Signed(s, k) == IF s < 0 THEN -k ELSE k

InfOfSign(s) == IF s < 0 THEN NInf ELSE PInf

Neg(x) == IF IsNaN(x) THEN NaN
          ELSE IF x = PInf THEN NInf
          ELSE IF x = NInf THEN PInf
          ELSE Fin(-x.v)

Add(x, y) == IF IsNaN(x) \/ IsNaN(y) THEN NaN
             ELSE IF ~IsFinite(x) /\ ~IsFinite(y) THEN (IF x = y THEN x ELSE NaN)
             ELSE IF ~IsFinite(x) THEN x
             ELSE IF ~IsFinite(y) THEN y
             ELSE Fin(x.v + y.v)

Sub(x, y) == Add(x, Neg(y))

Mul(x, y) == IF IsNaN(x) \/ IsNaN(y) THEN NaN
             ELSE IF ~IsFinite(x) \/ ~IsFinite(y)
                  THEN (IF Sign(x) * Sign(y) = 0 THEN NaN
                        ELSE InfOfSign(Sign(x) * Sign(y)))
             ELSE Fin(Signed(Sign(x) * Sign(y), (Abs(x.v) * Abs(y.v)) \div Scale))

Div(x, y) == IF IsNaN(x) \/ IsNaN(y) THEN NaN
             ELSE IF ~IsFinite(x) /\ ~IsFinite(y) THEN NaN
             ELSE IF ~IsFinite(y) THEN Fin(0)
             ELSE IF ~IsFinite(x)
                  THEN InfOfSign(Sign(x) * (IF y.v < 0 THEN -1 ELSE 1))
             ELSE IF y.v = 0
                  THEN (IF x.v = 0 THEN NaN ELSE InfOfSign(Sign(x)))
             ELSE Fin(Signed(Sign(x) * Sign(y), (Abs(x.v) * Scale) \div Abs(y.v)))

\* x < y on floats: every comparison with NaN is False
Less(x, y) == IF IsNaN(x) \/ IsNaN(y) THEN FALSE
              ELSE IF x = y THEN FALSE
              ELSE IF x = NInf \/ y = PInf THEN TRUE
              ELSE IF x = PInf \/ y = NInf THEN FALSE
              ELSE x.v < y.v

\* the largest r in lo..hi with r^k <= x, by bisection (k = 2 or 3)
RECURSIVE IRoot(_, _, _, _)
IRoot(k, x, lo, hi) ==
    IF lo >= hi THEN lo
    ELSE LET mid == (lo + hi + 1) \div 2
             fits == IF k = 2 THEN mid * mid <= x ELSE mid * mid <= x \div mid
         IN IF fits THEN IRoot(k, x, mid, hi) ELSE IRoot(k, x, lo, mid - 1)

\* np.sqrt: NaN below zero
Sqrt(x) == IF IsNaN(x) \/ x = NInf THEN NaN
           ELSE IF x = PInf THEN PInf
           ELSE IF x.v < 0 THEN NaN
           ELSE Fin(IRoot(2, x.v * Scale, 0, x.v + Scale))

\* x ** (1 / 3): NaN below zero, as numpy's float power
Cbrt(x) == IF IsNaN(x) \/ x = NInf THEN NaN
           ELSE IF x = PInf THEN PInf
           ELSE IF x.v < 0 THEN NaN
           ELSE Fin(IRoot(3, x.v * Scale * Scale, 0, x.v + Scale))

\* sine and cosine of the angles the tables of this model hold (whole degrees)
Deg(d) == Fin(d)

Sin(x) == IF ~IsFinite(x) THEN NaN
          ELSE CASE x.v = 0 -> Fx(0)
                 [] x.v = 30 -> Frac(1, 2)
                 [] x.v = 90 -> Fx(1)

Cos(x) == IF ~IsFinite(x) THEN NaN
          ELSE CASE x.v = 0 -> Fx(1)
                 [] x.v = 60 -> Frac(1, 2)
                 [] x.v = 90 -> Fx(0)

-----------------------------------------------------------------------------
(* Arrays and what a call hands back *)

\* a variant: the assignment x[:] = v, which ignores the mask
SetItemEverywhere(x, mask, v) == v

\* x[mask] = v[mask] (both sides indexed by the same boolean mask): the array
\* that the object x holds after the assignment
SetItem(x, mask, v) == [i \in Idx |-> IF mask[i] THEN v[i] ELSE x[i]]

\* np.isfinite(x) == False
NotFinite(x) == [i \in Idx |-> ~IsFinite(x[i])]

\* the number of True entries of a mask
CountTrue(mask) == Cardinality({i \in Idx : mask[i]})

\* what a call hands back: an array, None, or a raised exception
ArrayRet(x) == [kind |-> "array", data |-> x, exc |-> "-"]
NoneRet == [kind |-> "None", data |-> <<>>, exc |-> "-"]
Raise(e) == [kind |-> "raise", data |-> <<>>, exc |-> e]

-----------------------------------------------------------------------------
(* _choose_calculation *)

\* the names a caller may list in `methods`
MethodNames == {"A", "B"}
\* the longest `methods` list a call is given
MaxMethods == 2

VARIABLES
    standard,   \* self.standard: column name -> array, the standardized table
    estimates,  \* method name -> [value, uncertainty, unit]: what
                \* self.get(m) and self.get_uncertainty(m) yield for the
                \* methods of a merge, and the unit both carry
    called,     \* the operation of the last call
    args,       \* the arguments of the last call
    returned,   \* what the last call handed back to its caller
    merged,     \* the local array `values` of _choose_calculation when its
                \* body ended
    first,      \* the first accessor call made on this population
    raw,        \* the raw archive table that create_standardardized ingests
    label,      \* the class of the population being ingested
    individual_references,  \* self.individual_references: the rows of the
                \* hidden table of individual references
    subset,     \* the population that the last pop[key] produced
    stack       \* the accessor calls in progress, the outermost first: each
                \* with the number of the call it makes next

vars == <<standard, estimates, called, args, returned, merged, first,
          raw, label, individual_references, subset, stack>>

\* the variables of ingestion and subsetting
archive == <<raw, label, individual_references, subset>>

\* self.get(m, distribution=False) and self.get_uncertainty(m)
get(est, m) == est[m].value
get_uncertainty(est, m) == est[m].uncertainty

\* the unit of the Quantity that self.get(m) yields
UnitOf(est, m) == est[m].unit

\* a variant: every unit taken as convertible to every other
ConvertibleAlways(from, to) == TRUE

\* q.to_value(unit) succeeds: the units of the model are of different physical
\* types, so a unit converts to itself only
Convertible(from, to) == from = to

\* u.Quantity([...]) (lines 86-88) converts every element of the list to the
\* unit of the first and raises when one of them does not convert
StackRaises(units) == \E k \in 1..Len(units) : ~Convertible(units[k], units[1])

\* u.Quantity([f(m) for m in methods]): a new two-dimensional array whose row
\* k is the array of methods[k]
Stack(rows) == rows

\* np.isfinite(values) == False (line 96)
IsntGoodYet(values) == NotFinite(values)

\* a variant: a pass that overwrites every element, finite or not
PreferenceStepNoMask(ve, k) == [ve EXCEPT ![1] = ve[k]]

\* One pass of the preference loop (lines 95-97) for v = value_estimates[k].
\* `values` is value_estimates[0], a view: the assignment writes row 1 of ve.
PreferenceStep(ve, k) ==
    LET v == ve[k]
        values == ve[1]
        isnt_good_yet == IsntGoodYet(values)
    IN [ve EXCEPT ![1] = SetItem(values, isnt_good_yet, v)]

RECURSIVE PreferenceLoop(_, _)
PreferenceLoop(ve, k) ==
    IF k > Len(ve) THEN ve ELSE PreferenceLoop(PreferenceStep(ve, k), k + 1)

\* [u / v for v, u in zip(mu_estimates, uncertainty_estimates)] (lines 106-108)
FractionalUncertainty(mu, unc) ==
    [k \in 1..Len(mu) |-> [i \in Idx |-> Div(unc[k][i], mu[k][i])]]

\* a variant: NaN fractional uncertainties left as they are
NanToInfSkipped(fr) == fr

\* fractional_uncertainty_estimates[np.isnan(...)] = np.inf (lines 110-112)
NanToInf(fr) ==
    [k \in 1..Len(fr) |-> [i \in Idx |-> IF IsNaN(fr[k][i]) THEN PInf ELSE fr[k][i]]]

\* a variant: f <= current_fractional_uncertainty, the later method wins a tie
HasSmallerOrEqual(f, current) ==
    [i \in Idx |-> Less(f[i], current[i]) \/ f[i] = current[i]]

\* f < current_fractional_uncertainty (line 117)
HasSmallerUncertainty(f, current) == [i \in Idx |-> Less(f[i], current[i])]

\* One pass of the precision loop (lines 116-121) for the k-th pair (v, f).
\* `values` is row 1 of ve and current_fractional_uncertainty row 1 of fr, both
\* views: the two assignments write those rows.
PrecisionStep(s, k) ==
    LET v == s.ve[k]
        f == s.fr[k]
        current == s.fr[1]
        values == s.ve[1]
        has_smaller_uncertainty == HasSmallerUncertainty(f, current)
    IN [ve |-> [s.ve EXCEPT ![1] = SetItem(values, has_smaller_uncertainty, v)],
        fr |-> [s.fr EXCEPT ![1] = SetItem(current, has_smaller_uncertainty, f)]]

RECURSIVE PrecisionLoop(_, _)
PrecisionLoop(s, k) ==
    IF k > Len(s.ve) THEN s ELSE PrecisionLoop(PrecisionStep(s, k), k + 1)

\* The body of _choose_calculation (lines 85-121): the local `values` when the
\* body ends and what the call hands back.  The body has no return statement,
\* so a call that does not raise hands back None.  value_estimates[0] of an
\* empty `methods` raises IndexError, and u.Quantity of estimates whose units
\* do not convert raises before `values` is bound.
_choose_calculation(est, methods, how_to_choose) ==
    IF Len(methods) = 0
    THEN [values |-> <<>>, ret |-> Raise("IndexError")]
    ELSE IF StackRaises([k \in 1..Len(methods) |-> UnitOf(est, methods[k])])
    THEN [values |-> <<>>, ret |-> Raise("UnitConversionError")]
    ELSE
    LET value_estimates == Stack([k \in 1..Len(methods) |-> get(est, methods[k])])
        mu_estimates == Stack([k \in 1..Len(methods) |-> get(est, methods[k])])
        uncertainty_estimates ==
            Stack([k \in 1..Len(methods) |-> get_uncertainty(est, methods[k])])
        fractional_uncertainty_estimates ==
            NanToInf(FractionalUncertainty(mu_estimates, uncertainty_estimates))
        values ==
            IF how_to_choose = "preference"
            THEN PreferenceLoop(value_estimates, 1)[1]
            ELSE IF how_to_choose = "precision"
            THEN PrecisionLoop([ve |-> value_estimates,
                                fr |-> fractional_uncertainty_estimates], 1).ve[1]
            ELSE value_estimates[1]
    IN [values |-> values, ret |-> NoneRet]

-----------------------------------------------------------------------------
(* The standardized table and the heap an accessor runs on *)

\* the reference of an accessor's own array
Local == "<local>"

\* a variant: no copy, the accessor writes the table's own column
NdCopyShared(col) == col

\* column.copy(): the reference of the array the accessor goes on to write.
\* ndarray.copy() makes a new object.
NdCopy(col) == Local

\* the heap once `x = self.standard[col].copy()` has bound x to `ref`
Bind(st, ref, col) == IF ref = Local THEN st @@ (Local :> st[col]) ELSE st

\* the table part of a heap
StoreOf(h) == [c \in DOMAIN h \ {Local} |-> h[c]]

\* the heap of a caller after a nested accessor call left the table as st
Resume(h, st) == IF Local \in DOMAIN h THEN st @@ (Local :> h[Local]) ELSE st

\* self.standard[col]: KeyError when the table has no such column
Item(st, col) == IF col \in DOMAIN st THEN ArrayRet(st[col]) ELSE Raise("KeyError")

\* self.<col> for a name that is no accessor of planetary.py: the table's
\* column, AtlasError when the table has none
Attr(st, col) == IF col \in DOMAIN st THEN ArrayRet(st[col]) ELSE Raise("AtlasError")

\* the first exception among the results rs (in evaluation order), or None
RECURSIVE FirstRaise(_)
FirstRaise(rs) == IF Len(rs) = 0 THEN NoneRet
                  ELSE IF Head(rs).kind = "raise" THEN Head(rs)
                  ELSE FirstRaise(Tail(rs))

\* an accessor's result: what it hands back and the table it leaves behind
Result(ret, h) == [ret |-> ret, st |-> StoreOf(h)]

\* element-wise application of a formula to arrays
Map1(F(_), x) == [i \in Idx |-> F(x[i])]
Map2(F(_, _), x, y) == [i \in Idx |-> F(x[i], y[i])]

pi == Frac(355, 113)

-----------------------------------------------------------------------------
(* The gap-filling accessors *)

\* F(v) with v evaluated once: the local names of an accessor's body
Let(v, F(_)) == CHOOSE y \in {F(x) : x \in {v}} : TRUE

\* (G * M * P**2 / 4 / np.pi**2) ** (1 / 3) in AU (line 147), with G/(4 pi^2) = 1
\* in the units AU, yr, Msun
NVK3L(M, P) == Cbrt(Mul(M, Mul(P, P)))

\* a variant: the transit geometry written to every element
stillbad_everywhere(a) == [i \in Idx |-> TRUE]

\* stillbad = np.isfinite(a) == False (line 150)
stillbad(a) == NotFinite(a)

\* semimajoraxis (lines 124-160)
semimajoraxis(table) ==
    Let(table, LAMBDA st :
    IF "semimajoraxis" \notin DOMAIN st THEN Result(Raise("KeyError"), st) ELSE
    Let(Bind(st, NdCopy("semimajoraxis"), "semimajoraxis"), LAMBDA h0 :
    LET a == NdCopy("semimajoraxis")
        bad == NotFinite(h0[a])
        P == Attr(StoreOf(h0), "period")
        M == Attr(StoreOf(h0), "stellar_mass")
        err == FirstRaise(<<P, M>>)
    IN IF err.kind = "raise" THEN Result(err, h0) ELSE
    Let([h0 EXCEPT ![a] = SetItem(h0[a], bad, Map2(NVK3L, M.data, P.data))],
        LAMBDA h1 :
    LET ar == Item(StoreOf(h1), "transit_ar")
        rs == Item(StoreOf(h1), "stellar_radius")
        h2 == IF FirstRaise(<<ar, rs>>).kind = "raise"
              THEN h1
              ELSE [h1 EXCEPT ![a] = SetItem(h1[a], stillbad(h1[a]), Map2(Mul, ar.data, rs.data))]
    IN Result(ArrayRet(h2[a]), h2))))

\* a_over_rs (lines 163-187)
a_over_rs(table) ==
    Let(table, LAMBDA st :
    IF "transit_ar" \notin DOMAIN st THEN Result(Raise("KeyError"), st) ELSE
    Let(Bind(st, NdCopy("transit_ar"), "transit_ar"), LAMBDA h0 :
    Let(semimajoraxis(StoreOf(h0)), LAMBDA a :
    Let(Resume(h0, a.st), LAMBDA h1 :
    LET x == NdCopy("transit_ar")
        bad == NotFinite(h0[x])
        R == Attr(StoreOf(h1), "stellar_radius")
        err == FirstRaise(<<a.ret, R>>)
        h2 == [h1 EXCEPT ![x] = SetItem(h1[x], bad, Map2(Div, a.ret.data, R.data))]
    IN IF err.kind = "raise" THEN Result(err, h1) ELSE Result(ArrayRet(h2[x]), h2)))))

\* a variant: the table's eccentricities as they are, missing ones included
e_as_tabulated(table) ==
    IF "eccentricity" \notin DOMAIN table THEN Result(Raise("KeyError"), table)
    ELSE Result(ArrayRet(table["eccentricity"]), table)

\* e (lines 190-205)
e(table) ==
    Let(table, LAMBDA st :
    IF "eccentricity" \notin DOMAIN st THEN Result(Raise("KeyError"), st) ELSE
    Let(Bind(st, NdCopy("eccentricity"), "eccentricity"), LAMBDA h0 :
    LET x == NdCopy("eccentricity")
        bad == NotFinite(h0[x])
        h1 == [h0 EXCEPT ![x] = SetItem(h0[x], bad, [i \in Idx |-> Fx(0)])]
    IN Result(ArrayRet(h1[x]), h1)))

\* self.e == 0 (line 220)
EZero(ecc) == [i \in Idx |-> ecc[i] = Fx(0)]

\* omega (lines 208-224): `bad` is computed and reported, and the assignment
\* is indexed by e_zero alone
omega(table) ==
    Let(table, LAMBDA st :
    IF "omega" \notin DOMAIN st THEN Result(Raise("KeyError"), st) ELSE
    Let(Bind(st, NdCopy("omega"), "omega"), LAMBDA h0 :
    Let(e(StoreOf(h0)), LAMBDA ecc :
    Let(Resume(h0, ecc.st), LAMBDA h1 :
    IF ecc.ret.kind = "raise" THEN Result(ecc.ret, h1) ELSE
    LET x == NdCopy("omega")
        bad == NotFinite(h0[x])
        e_zero == EZero(ecc.ret.data)
        h2 == [h1 EXCEPT ![x] = SetItem(h1[x], e_zero, [i \in Idx |-> Deg(0)])]
    IN Result(ArrayRet(h2[x]), h2)))))

\* a_over_rs * np.cos(i) * ((1 - e**2) / (1 + e * np.sin(omega))) (line 246)
ImpactParameter(ar, inc, ecc, om) ==
    Mul(Mul(ar, Cos(inc)),
        Div(Sub(Fx(1), Mul(ecc, ecc)), Add(Fx(1), Mul(ecc, Sin(om)))))

\* b (lines 227-252)
b(table) ==
    Let(table, LAMBDA st :
    IF "transit_b" \notin DOMAIN st THEN Result(Raise("KeyError"), st) ELSE
    Let(Bind(st, NdCopy("transit_b"), "transit_b"), LAMBDA h0 :
    Let(a_over_rs(StoreOf(h0)), LAMBDA ar :
    Let(Resume(h0, ar.st), LAMBDA h1 :
    Let(e(StoreOf(h1)), LAMBDA ecc :
    Let(Resume(h1, ecc.st), LAMBDA h2 :
    Let(omega(StoreOf(h2)), LAMBDA om :
    Let(Resume(h2, om.st), LAMBDA h3 :
    LET x == NdCopy("transit_b")
        bad == NotFinite(h0[x])
        inc == Item(StoreOf(h1), "inclination")
        err == FirstRaise(<<ar.ret, inc, ecc.ret, om.ret>>)
        alt == [i \in Idx |-> ImpactParameter(ar.ret.data[i], inc.data[i],
                                              ecc.ret.data[i], om.ret.data[i])]
        h4 == [h3 EXCEPT ![x] = SetItem(h3[x], bad, alt)]
    IN IF err.kind = "raise" THEN Result(err, h3) ELSE Result(ArrayRet(h4[x]), h4)
    ))))))))

\* self.impact_parameter: the gap-filled impact parameter
impact_parameter(table) == b(table)

\* (Rp / Rs).decompose() ** 2 (line 360)
DepthFromRadii(Rp, Rs) == Mul(Div(Rp, Rs), Div(Rp, Rs))

\* transit_depth (lines 343-366)
transit_depth(table) ==
    Let(table, LAMBDA st :
    IF "transit_depth" \notin DOMAIN st THEN Result(Raise("KeyError"), st) ELSE
    Let(Bind(st, NdCopy("transit_depth"), "transit_depth"), LAMBDA h0 :
    LET d == NdCopy("transit_depth")
        bad == NotFinite(h0[d])
        Rp == Attr(StoreOf(h0), "radius")
        Rs == Attr(StoreOf(h0), "stellar_radius")
        err == FirstRaise(<<Rp, Rs>>)
        h1 == [h0 EXCEPT ![d] = SetItem(h0[d], bad, Map2(DepthFromRadii, Rp.data, Rs.data))]
    IN IF err.kind = "raise" THEN Result(err, h0) ELSE Result(ArrayRet(h1[d]), h1)))

\* a variant: the chord of a planet that misses the star taken as 0,
\* sqrt(max(0, 1 - b**2))
DurationClipped(P, ar, imp, ecc, om) ==
    LET T0 == Div(Div(P, pi), ar)
        chord == IF Less(Fx(1), Mul(imp, imp)) THEN Fx(0) ELSE Sub(Fx(1), Mul(imp, imp))
        T == Mul(T0, Sqrt(chord))
        factor == Div(Sqrt(Sub(Fx(1), Mul(ecc, ecc))), Add(Fx(1), Mul(ecc, Sin(om))))
    IN Mul(T, factor)

\* T0 = P / pi / a_over_rs; T = T0 * sqrt(1 - b**2);
\* factor = sqrt(1 - e**2) / (1 + e * sin(omega)); T * factor (lines 390-397)
Duration(P, ar, imp, ecc, om) ==
    LET T0 == Div(Div(P, pi), ar)
        T == Mul(T0, Sqrt(Sub(Fx(1), Mul(imp, imp))))
        factor == Div(Sqrt(Sub(Fx(1), Mul(ecc, ecc))), Add(Fx(1), Mul(ecc, Sin(om))))
    IN Mul(T, factor)

\* transit_duration (lines 369-403)
transit_duration(table) ==
    Let(table, LAMBDA st :
    IF "transit_duration" \notin DOMAIN st THEN Result(Raise("KeyError"), st) ELSE
    Let(Bind(st, NdCopy("transit_duration"), "transit_duration"), LAMBDA h0 :
    Let(a_over_rs(StoreOf(h0)), LAMBDA ar :
    Let(Resume(h0, ar.st), LAMBDA h1 :
    Let(impact_parameter(StoreOf(h1)), LAMBDA imp :
    Let(Resume(h1, imp.st), LAMBDA h2 :
    Let(e(StoreOf(h2)), LAMBDA ecc :
    Let(Resume(h2, ecc.st), LAMBDA h3 :
    Let(omega(StoreOf(h3)), LAMBDA om :
    Let(Resume(h3, om.st), LAMBDA h4 :
    LET d == NdCopy("transit_duration")
        bad == NotFinite(h0[d])
        P == Attr(StoreOf(h0), "period")
        err == FirstRaise(<<P, ar.ret, imp.ret, ecc.ret, om.ret>>)
        alt == [i \in Idx |-> Duration(P.data[i], ar.ret.data[i], imp.ret.data[i],
                                       ecc.ret.data[i], om.ret.data[i])]
        h5 == [h4 EXCEPT ![d] = SetItem(h4[d], bad, alt)]
    IN IF err.kind = "raise" THEN Result(err, h4) ELSE Result(ArrayRet(h5[d]), h5)
    ))))))))))

\* a variant: the kludge_* accessors without their except clause
CaughtNothing == {}

\* the exceptions the kludge_* accessors catch (lines 426, 457, 489)
Caught == {"KeyError", "AssertionError", "AtlasError", "AttributeError"}

\* kludge_mass (lines 406-433)
kludge_mass(table) ==
    Let(table, LAMBDA st :
    IF "mass" \notin DOMAIN st THEN Result(Raise("KeyError"), st) ELSE
    Let(Bind(st, NdCopy("mass"), "mass"), LAMBDA h0 :
    LET M == NdCopy("mass")
        bad == NotFinite(h0[M])
        msini == Attr(StoreOf(h0), "msini")
        h1 == IF msini.kind = "raise" THEN h0
              ELSE [h0 EXCEPT ![M] = SetItem(h0[M], bad, msini.data)]
    IN IF msini.kind = "raise" /\ msini.exc \notin Caught
       THEN Result(msini, h0)
       ELSE Result(ArrayRet(h1[M]), h1)))

\* estimate_radius: the mass-radius relation of Chen & Kipping (2017), a power
\* law of the mass
estimate_radius(M) == Sqrt(M)

\* kludge_radius (lines 436-466)
kludge_radius(table) ==
    Let(table, LAMBDA st :
    IF "radius" \notin DOMAIN st THEN Result(Raise("KeyError"), st) ELSE
    Let(Bind(st, NdCopy("radius"), "radius"), LAMBDA h0 :
    Let(kludge_mass(StoreOf(h0)), LAMBDA M :
    Let(Resume(h0, M.st), LAMBDA h1 :
    LET R == NdCopy("radius")
        bad == NotFinite(h0[R])
        h2 == IF M.ret.kind = "raise" THEN h1
              ELSE [h1 EXCEPT ![R] = SetItem(h1[R], bad, Map1(estimate_radius, M.ret.data))]
    IN IF M.ret.kind = "raise" /\ M.ret.exc \notin Caught
       THEN Result(M.ret, h1)
       ELSE Result(ArrayRet(h2[R]), h2)))))

\* the age assumed for a missing stellar age, in Gyr (line 488)
AssumedAge == 5

\* a variant: only the known ages, stellar_age[np.isfinite(stellar_age)]
kludge_age_known_only(table) ==
    IF "stellar_age" \notin DOMAIN table THEN Result(Raise("KeyError"), table)
    ELSE Result(ArrayRet(SelectSeq(table["stellar_age"], IsFinite)), table)

\* kludge_age (lines 469-498)
kludge_age(table) ==
    Let(table, LAMBDA st :
    IF "stellar_age" \notin DOMAIN st THEN Result(Raise("KeyError"), st) ELSE
    Let(Bind(st, NdCopy("stellar_age"), "stellar_age"), LAMBDA h0 :
    LET age == NdCopy("stellar_age")
        bad == NotFinite(h0[age])
        h1 == [h0 EXCEPT ![age] = SetItem(h0[age], bad, [i \in Idx |-> Fx(AssumedAge)])]
    IN Result(ArrayRet(h1[age]), h1)))

\* stellar_luminosity / 4 / pi / semimajoraxis**2 (line 266)
Flux(L, a) == Div(Div(Div(L, Fx(4)), pi), Mul(a, a))

\* insolation (lines 259-267)
insolation(table) ==
    Let(table, LAMBDA st :
    Let(semimajoraxis(st), LAMBDA a :
    LET L == Attr(st, "stellar_luminosity")
        err == FirstRaise(<<L, a.ret>>)
    IN IF err.kind = "raise" THEN [ret |-> err, st |-> a.st]
       ELSE [ret |-> ArrayRet(Map2(Flux, L.data, a.ret.data)), st |-> a.st]))

\* (f * A / 4 / sigma) ** (1 / 4) with A = 1 (lines 329-332), in units in which
\* the Stefan-Boltzmann constant is 1
Teq(f) == Sqrt(Sqrt(Div(f, Fx(4))))

\* teq (lines 324-332)
teq(table) ==
    Let(insolation(table), LAMBDA f :
    IF f.ret.kind = "raise" THEN f
    ELSE [ret |-> ArrayRet(Map1(Teq, f.ret.data)), st |-> f.st])

-----------------------------------------------------------------------------
(* Populations *)

Cols == {"semimajoraxis", "period", "stellar_mass", "transit_ar", "stellar_radius",
         "eccentricity", "omega", "transit_b", "inclination", "transit_depth",
         "radius", "transit_duration", "mass", "msini", "stellar_age",
         "stellar_luminosity"}

\* a record with every column missing, and records that differ from it
Missing == [c \in Cols |-> NaN]
With(row, upd) == [c \in Cols |-> IF c \in DOMAIN upd THEN upd[c] ELSE row[c]]

\* every quantity measured
Complete ==
    [semimajoraxis |-> Fx(1), period |-> Fx(1), stellar_mass |-> Fx(1),
     transit_ar |-> Fx(4), stellar_radius |-> Frac(1, 4),
     eccentricity |-> Frac(1, 2), omega |-> Deg(90), transit_b |-> Frac(1, 2),
     inclination |-> Deg(90), transit_depth |-> Frac(1, 100),
     radius |-> Frac(1, 10), transit_duration |-> Frac(1, 10), mass |-> Fx(4),
     msini |-> Fx(1), stellar_age |-> Fx(2), stellar_luminosity |-> Fx(1)]

\* a transiting planet with only its period, inclination and radius measured
Transiting ==
    With(Missing, [period |-> Fx(8), stellar_mass |-> Fx(1),
                   stellar_radius |-> Frac(1, 2), inclination |-> Deg(90),
                   radius |-> Frac(1, 10), stellar_luminosity |-> Fx(1)])

\* the same planet seen at 60 degrees (b > 1), with a longitude of periastron
Grazing == With(Transiting, [inclination |-> Deg(60), omega |-> Deg(90)])

\* a radial-velocity planet: a minimum mass, an eccentric orbit, a/R* and R*
RadialVelocity ==
    With(Missing, [stellar_mass |-> Fx(1), transit_ar |-> Fx(4),
                   stellar_radius |-> Frac(1, 4), eccentricity |-> Frac(1, 2),
                   msini |-> Fx(4)])

Planets == {Missing, Complete, Transiting, Grazing, RadialVelocity}

\* the columns a standardized table may lack altogether
AbsentSets == {{}, {"msini"}, {"inclination"}, {"transit_ar", "stellar_radius"}}

\* the standardized table of the records rows[1..N] without the columns absent
TableOf(rows, absent) == [c \in Cols \ absent |-> [i \in Idx |-> rows[i][c]]]

\* the tables of the accessor specification: every population of Planets with
\* all its columns, and the populations of two of them with columns absent
Tables ==
    {TableOf(rows, {}) : rows \in [Idx -> Planets]}
    \cup {TableOf(rows, absent) :
              rows \in [Idx -> {Missing, Complete}], absent \in AbsentSets}

\* the orbital columns take every combination of missing and measured, and the
\* two columns of the transit-geometry fallback may be absent
OrbitRows ==
    {With(Missing, [semimajoraxis |-> a, period |-> P, stellar_mass |-> M,
                    transit_ar |-> ar, stellar_radius |-> rs]) :
        a \in {NaN, Fx(2)}, P \in {NaN, Fx(8)}, M \in {NaN, Fx(1)},
        ar \in {NaN, Fx(3)}, rs \in {NaN, Frac(1, 2)}}
OrbitAbsentSets == {{}, {"transit_ar"}, {"stellar_radius"}}
OrbitTables ==
    {TableOf(rows, absent) : rows \in [Idx -> OrbitRows], absent \in OrbitAbsentSets}

\* what self.get and self.get_uncertainty may yield for one element of one
\* method: value and uncertainty
Cells == {[value |-> NaN, uncertainty |-> NaN],
          [value |-> Fx(10), uncertainty |-> Fx(2)],
          [value |-> Fx(5), uncertainty |-> Fx(1)],
          [value |-> Fx(0), uncertainty |-> Fx(1)]}

\* the units a method's estimate may carry: a length and a time
Units == {"AU", "day"}

Measured(cells, unit) == [value |-> [i \in Idx |-> cells[i].value],
                          uncertainty |-> [i \in Idx |-> cells[i].uncertainty],
                          unit |-> unit]

\* estimates of a length
EstimateOf(cells) == Measured(cells, "AU")

Estimates == [MethodNames -> {EstimateOf(cells) : cells \in [Idx -> Cells]}]

\* the estimates of the accessor specification: one fixed pair of methods
SomeEstimates ==
    [m \in MethodNames |->
        EstimateOf([i \in Idx |-> IF m = "A"
                                  THEN [value |-> NaN, uncertainty |-> NaN]
                                  ELSE [value |-> Fx(10), uncertainty |-> Fx(1)]])]

\* estimates of either unit, for two of the cells
UnitCells == {[value |-> NaN, uncertainty |-> NaN],
              [value |-> Fx(10), uncertainty |-> Fx(2)]}

UnitEstimates ==
    [MethodNames -> {Measured(cells, unit) : cells \in [Idx -> UnitCells],
                                             unit \in Units}]

\* the `methods` lists a call may be given: at most MaxMethods names
MethodLists == UNION {[1..n -> MethodNames] : n \in 0..MaxMethods}

Modes == {"preference", "precision"}

\* the arguments a call of _choose_calculation may be given
Calls == [methods : MethodLists, how_to_choose : Modes]

-----------------------------------------------------------------------------
(* Ingestion: create_standardardized and the references of a column *)

\* the raw columns of the model, as the class lists them (lines 51-137)
raw_columns_with_errors_and_limits == {"pl_orbper"}
raw_columns_without_errors == {"pl_name", "ra"}

\* x.split(sep) for a string x given as the sequence of its pieces, sep being
\* one of the pieces: the sequence of the substrings between occurrences
RECURSIVE Split(_, _)
Split(x, sep) ==
    IF x = <<>> THEN << <<>> >>
    ELSE LET rest == Split(Tail(x), sep)
         IN IF Head(x) = sep
            THEN << <<>> >> \o rest
            ELSE << <<Head(x)>> \o rest[1] >> \o Tail(rest)

\* what a call hands back when it is not an array of numbers
ValueRet(x) == [kind |-> "value", data |-> x, exc |-> "-"]

\* parse_reflink (lines 9-34): an entry that is no string has no split
\* (AttributeError, caught: the empty pair); [1] of a split without a second
\* part raises IndexError, which is not caught
parse_reflink(x) ==
    IF ~x.str THEN ValueRet(<< <<>>, <<>> >>)
    ELSE IF Len(Split(x.chars, "href=")) < 2 THEN Raise("IndexError")
    ELSE IF Len(Split(x.chars, ">")) < 2 THEN Raise("IndexError")
    ELSE ValueRet(<<Split(Split(x.chars, ">")[2], "<")[1],
                    Split(Split(x.chars, "href=")[2], " ")[1]>>)

\* k.split("_")[0] (line 566) for the raw keys of the model
Prefix(k) == CASE k = "pl_name" -> "pl"
               [] k = "pl_orbper" -> "pl"
               [] k = "ra" -> "ra"

\* the column of references that get_references reads for the raw key k:
\* ExoplanetsPSCP (line 524) and ExoplanetsPS (lines 566-570)
ReferenceColumn(lab, k) ==
    IF lab = "ExoplanetsPS" THEN Prefix(k) \o "_refname" ELSE k \o "_reflink"

\* get_references (lines 507-529 and 547-576)
get_references(lab, r, k) ==
    IF lab = "ExoplanetsPS" /\ Prefix(k) \notin {"pl", "st", "sy"}
    THEN Raise("AssertionError")
    ELSE IF ReferenceColumn(lab, k) \notin DOMAIN r THEN Raise("KeyError")
    ELSE LET parsed == [i \in Idx |-> parse_reflink(r[ReferenceColumn(lab, k)][i])]
         IN IF FirstRaise(parsed).kind = "raise" THEN FirstRaise(parsed)
            ELSE ValueRet([i \in Idx |-> parsed[i].data])

\* s[name] = column: the table with the column added or replaced
SetColumn(s, name, col) == (name :> col) @@ s

\* a variant: limits and values left where the flag says otherwise
BlankedNowhere(x, keep) == x

\* s[name][keep == False] = np.nan (lines 316, 322, 335-337)
Blanked(x, keep) == [i \in Idx |-> IF keep[i] THEN x[i] ELSE NaN]

\* limit_flag == v (lines 314, 320, 326)
FlagIs(limit_flag, v) == [i \in Idx |-> limit_flag[i] = Fx(v)]

\* the branch for a column with errors and limits (lines 309-341)
WithErrorsAndLimits(s, r, k_new, k_original) ==
    LET limit_flag == r[k_original \o "lim"]
        is_lower == FlagIs(limit_flag, -1)
        is_upper == FlagIs(limit_flag, 1)
        is_bounded == FlagIs(limit_flag, 0)
        s1 == IF CountTrue(is_lower) > 0
              THEN SetColumn(s, k_new \o "_lower_limit", Blanked(r[k_original], is_lower))
              ELSE s
        s2 == IF CountTrue(is_upper) > 0
              THEN SetColumn(s1, k_new \o "_upper_limit", Blanked(r[k_original], is_upper))
              ELSE s1
    IN IF CountTrue(is_bounded) > 0
       THEN SetColumn(
                SetColumn(
                    SetColumn(s2, k_new, Blanked(r[k_original], is_bounded)),
                    k_new \o "_uncertainty_upper",
                    Blanked(r[k_original \o "err1"], is_bounded)),
                k_new \o "_uncertainty_lower",
                Blanked(r[k_original \o "err2"], is_bounded))
       ELSE s2

\* the try block of lines 348-351: the references of the column are recorded,
\* KeyError and AssertionError are passed over, any other exception leaves
\* the function
WithReferences(s, lab, r, k_new, k_original) ==
    Let(get_references(lab, r, k_original), LAMBDA refs :
        IF refs.kind = "raise"
        THEN IF refs.exc \in {"KeyError", "AssertionError"}
             THEN [s |-> s, exc |-> NoneRet]
             ELSE [s |-> s, exc |-> refs]
        ELSE [s |-> SetColumn(s, k_new \o "_reference", refs.data), exc |-> NoneRet])

\* populate_one_or_more_columns (lines 270-351)
populate_one_or_more_columns(s, lab, r, k_new, k_original) ==
    IF k_original \notin DOMAIN r THEN [s |-> s, exc |-> NoneRet]
    ELSE IF k_original \in raw_columns_without_errors
    THEN WithReferences(SetColumn(s, k_new, r[k_original]), lab, r, k_new, k_original)
    ELSE IF k_original \in raw_columns_with_errors_and_limits
    THEN WithReferences(WithErrorsAndLimits(s, r, k_new, k_original),
                        lab, r, k_new, k_original)
    ELSE WithReferences(SetColumn(s, k_new, r[k_original]), lab, r, k_new, k_original)

\* s.sort("name") (line 493): row i of the sorted table is the row of s with
\* the i-th smallest name
Sorted(s) ==
    LET at == [i \in Idx |->
                  CHOOSE j \in Idx :
                      Cardinality({k \in Idx : s["name"][k] < s["name"][j]}) = i - 1]
    IN [c \in DOMAIN s |-> [i \in Idx |-> s[c][at[i]]]]

\* what create_standardardized hands back
TableRet == [kind |-> "table", data |-> <<>>, exc |-> "-"]

\* create_standardardized (lines 222-505) for the columns of the model: the
\* name, a column without errors and a column with errors and limits
create_standardardized(lab, r) ==
    Let(populate_one_or_more_columns(<<>>, lab, r, "name", "pl_name"), LAMBDA p1 :
    IF p1.exc.kind = "raise" THEN [ret |-> p1.exc, standard |-> <<>>] ELSE
    Let(populate_one_or_more_columns(p1.s, lab, r, "ra", "ra"), LAMBDA p2 :
    IF p2.exc.kind = "raise" THEN [ret |-> p2.exc, standard |-> <<>>] ELSE
    Let(populate_one_or_more_columns(p2.s, lab, r, "period", "pl_orbper"), LAMBDA p3 :
    IF p3.exc.kind = "raise" THEN [ret |-> p3.exc, standard |-> <<>>] ELSE
    IF "name" \notin DOMAIN p3.s THEN [ret |-> Raise("KeyError"), standard |-> <<>>]
    ELSE [ret |-> TableRet, standard |-> Sorted(p3.s)])))

-----------------------------------------------------------------------------
(* Subsetting: Exoplanets.__getitem__ *)

\* the rows of a table at the positions of key, in their order
Rows(rows, key) ==
    LET F[k \in 0..Len(rows)] ==
            IF k = 0 THEN <<>>
            ELSE IF k \in key THEN Append(F[k - 1], rows[k]) ELSE F[k - 1]
    IN F[Len(rows)]

\* Population.__getitem__(key) for an index list or mask: a new population of
\* the selected planets
PopulationGetItem(pop, key) ==
    [pop EXCEPT !.standard = [c \in DOMAIN pop.standard |-> Rows(pop.standard[c], key)]]

\* the population of individual references indexed with a list of host
\* names: the rows of those hosts
ByHostname(refs, hosts) ==
    LET OfHosts(row) == row.hostname \in hosts
    IN SelectSeq(refs, OfHosts)

\* np.unique(subset.hostname) (line 645), as a set
Unique(x) == {x[i] : i \in DOMAIN x}

\* a variant: the subset keeps the whole table of individual references
__getitem__untrimmed(self, key) ==
    [self |-> self, subset |-> PopulationGetItem(self, key)]

\* Exoplanets.__getitem__ (lines 620-648): the population `self` after the
\* call and the subset it returns
__getitem__(self, key) ==
    LET sub == PopulationGetItem(self, key)
    IN [self |-> self,
        subset |-> [sub EXCEPT !.individual_references =
                       ByHostname(self.individual_references,
                                  Unique(sub.standard["hostname"]))]]

-----------------------------------------------------------------------------
(* The state machine: a population and the calls made on it *)

NoArgs == [methods |-> <<>>, how_to_choose |-> "-"]
NoCall == [name |-> "-", ret |-> NoneRet, between |-> FALSE]

\* a population that is given, neither being ingested nor subset
Given ==
    /\ raw = <<>>
    /\ label = "-"
    /\ individual_references = <<>>
    /\ subset = <<>>

NotCalled ==
    /\ called = "-"
    /\ returned = NoneRet
    /\ stack = <<>>
    /\ merged = <<>>
    /\ first = NoCall

\* a call of an accessor property: r is what the accessor's body yields
Access(name, r) ==
    /\ called' = name
    /\ args' = NoArgs
    /\ returned' = r.ret
    /\ standard' = r.st
    /\ first' = IF first = NoCall
                THEN [name |-> name, ret |-> r.ret, between |-> FALSE]
                ELSE [first EXCEPT !.between = @ \/ name # first.name]
    /\ UNCHANGED <<estimates, merged, archive, stack>>

Semimajoraxis == \E r \in {semimajoraxis(standard)} : Access("semimajoraxis", r)
AOverRs == \E r \in {a_over_rs(standard)} : Access("a_over_rs", r)
E == \E r \in {e(standard)} : Access("e", r)
Omega == \E r \in {omega(standard)} : Access("omega", r)
B == \E r \in {b(standard)} : Access("b", r)
TransitDepth == \E r \in {transit_depth(standard)} : Access("transit_depth", r)
TransitDuration == \E r \in {transit_duration(standard)} : Access("transit_duration", r)
KludgeMass == \E r \in {kludge_mass(standard)} : Access("kludge_mass", r)
KludgeRadius == \E r \in {kludge_radius(standard)} : Access("kludge_radius", r)
KludgeAge == \E r \in {kludge_age(standard)} : Access("kludge_age", r)
Insolation == \E r \in {insolation(standard)} : Access("insolation", r)
TeqCall == \E r \in {teq(standard)} : Access("teq", r)

\* the call _choose_calculation(c.methods, how_to_choose=c.how_to_choose)
ChooseWith(c) ==
    \E r \in {_choose_calculation(estimates, c.methods, c.how_to_choose)} :
        /\ called' = "_choose_calculation"
        /\ args' = c
        /\ returned' = r.ret
        /\ merged' = r.values
        /\ UNCHANGED <<standard, estimates, first, archive, stack>>

Choose == ChooseWith(args)

ChooseBoth ==
    \E how_to_choose \in Modes :
        ChooseWith([methods |-> <<"A", "B">>, how_to_choose |-> how_to_choose])

\* the accessors of a population
Init ==
    standard \in Tables /\ estimates = SomeEstimates /\ args = NoArgs /\ NotCalled /\ Given

Next ==
    \/ Semimajoraxis
    \/ AOverRs
    \/ E
    \/ Omega
    \/ B
    \/ TransitDepth
    \/ TransitDuration
    \/ KludgeMass
    \/ KludgeRadius
    \/ KludgeAge
    \/ Insolation
    \/ TeqCall
    \/ ChooseBoth

Spec == Init /\ [][Next]_vars

\* semimajoraxis over every combination of its inputs
InitSemimajoraxis ==
    /\ standard \in OrbitTables
    /\ estimates = SomeEstimates
    /\ args = NoArgs
    /\ NotCalled
    /\ Given

NextSemimajoraxis == Semimajoraxis \/ AOverRs

SpecSemimajoraxis == InitSemimajoraxis /\ [][NextSemimajoraxis]_vars

\* _choose_calculation over every pair of estimates and every call
InitChoose ==
    /\ standard = TableOf([i \in Idx |-> Missing], {})
    /\ estimates \in Estimates
    /\ args \in Calls
    /\ NotCalled
    /\ Given

NextChoose == Choose

SpecChoose == InitChoose /\ [][NextChoose]_vars

\* _choose_calculation over estimates of either unit
InitUnits ==
    /\ standard = TableOf([i \in Idx |-> Missing], {})
    /\ estimates \in UnitEstimates
    /\ args \in Calls
    /\ NotCalled
    /\ Given

NextUnits == Choose

SpecUnits == InitUnits /\ [][NextUnits]_vars

\* entries of a reference column: the archive's markup, a string without
\* markup, an empty string, markup that is never closed, and a masked entry
Markup ==
    [str |-> TRUE,
     chars |-> <<"<a", " ", "refstr=TORRES_ET_AL__2008", " ", "href=",
                 "https://ui.adsabs.harvard.edu/abs/2008ApJ...677.1324T/abstract",
                 " ", "target=ref", ">", " ", "Torres et al. 2008", " ", "<",
                 "/a", ">">>]
PlainText == [str |-> TRUE, chars |-> <<"Torres et al. 2008">>]
EmptyString == [str |-> TRUE, chars |-> <<>>]
Unclosed == [str |-> TRUE, chars |-> <<"<a", " ", "href=", "https://doi.org/x">>]
Masked == [str |-> FALSE, chars |-> <<>>]

ReferenceEntries == {Markup, PlainText, EmptyString, Unclosed, Masked}

\* raw records of a quantity with errors and limits: the value, its two
\* errors and its limit flag
Measurement == [value |-> Fx(3), err1 |-> Fx(1), err2 |-> Fx(-1), lim |-> Fx(0)]
LowerLimit == [value |-> Fx(3), err1 |-> NaN, err2 |-> NaN, lim |-> Fx(-1)]
UpperLimit == [value |-> Fx(3), err1 |-> NaN, err2 |-> NaN, lim |-> Fx(1)]
UpperLimitWithErrors == [value |-> Fx(3), err1 |-> Fx(1), err2 |-> Fx(-1), lim |-> Fx(1)]
Unmeasured == [value |-> NaN, err1 |-> NaN, err2 |-> NaN, lim |-> Fx(0)]
Null == [value |-> NaN, err1 |-> NaN, err2 |-> NaN, lim |-> NaN]

RawRows == {Measurement, LowerLimit, UpperLimit, UpperLimitWithErrors,
            Unmeasured, Null}

\* the orders in which the raw table may list its planets: names[i] is the
\* alphabetical rank of the name of row i
NameOrders == {names \in [Idx -> Idx] : \A i, j \in Idx : names[i] = names[j] => i = j}

\* a raw table: the rows, their names, and the reference columns `present`,
\* each holding the entries refs
RawTable(names, rows, present, refs) ==
    [pl_name |-> names,
     ra |-> [i \in Idx |-> Fx(10)],
     pl_orbper |-> [i \in Idx |-> rows[i].value],
     pl_orbpererr1 |-> [i \in Idx |-> rows[i].err1],
     pl_orbpererr2 |-> [i \in Idx |-> rows[i].err2],
     pl_orbperlim |-> [i \in Idx |-> rows[i].lim]]
    @@ [c \in present |-> refs]

\* the call create_standardardized(raw)
Standardize ==
    \E r \in {create_standardardized(label, raw)} :
        /\ called' = "create_standardardized"
        /\ returned' = r.ret
        /\ standard' = r.standard
        /\ UNCHANGED <<estimates, args, merged, first, archive, stack>>

\* a population about to be ingested
Ingesting ==
    /\ standard = <<>>
    /\ estimates = SomeEstimates
    /\ args = NoArgs
    /\ NotCalled
    /\ individual_references = <<>>
    /\ subset = <<>>

\* ingestion of every combination of values and limits, in every order
InitLimits ==
    /\ Ingesting
    /\ label = "ExoplanetsPSCP"
    /\ raw \in {RawTable(names, rows, {"pl_orbper_reflink"}, [i \in Idx |-> Markup]) :
                   names \in NameOrders, rows \in [Idx -> RawRows]}

NextLimits == Standardize

SpecLimits == InitLimits /\ [][NextLimits]_vars

\* ingestion by either class, with every combination of reference columns
\* and of their entries
InitReferences ==
    /\ Ingesting
    /\ label \in {"ExoplanetsPSCP", "ExoplanetsPS"}
    /\ raw \in {RawTable(names, rows, present, refs) :
                   names \in NameOrders,
                   rows \in [Idx -> {Measurement, Null}],
                   present \in SUBSET {"pl_orbper_reflink", "pl_refname"},
                   refs \in [Idx -> ReferenceEntries]}

NextReferences == Standardize

SpecReferences == InitReferences /\ [][NextReferences]_vars

\* the host names of the planets, and those of the rows of references
Hosts == {"h1", "h2"}
ReferenceHosts == Hosts \cup {"h3"}

\* the population a subsetting starts from: the population itself, or the
\* subset that the last subsetting produced
Current ==
    IF called = "__getitem__" THEN subset
    ELSE [standard |-> standard, individual_references |-> individual_references]

\* the call pop[key], pop being the population or the last subset of it
GetItem ==
    \E key \in SUBSET (1..Len(Current.standard["hostname"])) :
        \E r \in {__getitem__(Current, key)} :
            /\ called' = "__getitem__"
            /\ returned' = TableRet
            /\ subset' = r.subset
            /\ first' = [first EXCEPT !.between = called = "__getitem__"]
            /\ IF called = "__getitem__"
               THEN UNCHANGED <<standard, individual_references>>
               ELSE /\ standard' = r.self.standard
                    /\ individual_references' = r.self.individual_references
            /\ UNCHANGED <<estimates, args, merged, raw, label, stack>>

\* every population of N planets around the hosts, with N rows of references
InitSubset ==
    /\ standard \in {[hostname |-> h] : h \in [Idx -> Hosts]}
    /\ individual_references \in
           {[i \in Idx |-> [hostname |-> h[i], row |-> i]] : h \in [Idx -> ReferenceHosts]}
    /\ subset = <<>>
    /\ raw = <<>>
    /\ label = "Exoplanets"
    /\ estimates = SomeEstimates
    /\ args = NoArgs
    /\ NotCalled

NextSubset == GetItem

SpecSubset == InitSubset /\ [][NextSubset]_vars

-----------------------------------------------------------------------------
(* _choose_calculation: what the loops compute *)

\* the last call was _choose_calculation(methods, how_to_choose=how) with a
\* nonempty list
ChoseBy(how) ==
    /\ called = "_choose_calculation"
    /\ args.how_to_choose = how
    /\ Len(args.methods) > 0

\* the value and the uncertainty that the k-th listed method has at element i
ValueAt(k, i) == get(estimates, args.methods[k])[i]
UncertaintyAt(k, i) == get_uncertainty(estimates, args.methods[k])[i]

\* uncertainty / value of the k-th listed method at element i
RawFractionAt(k, i) == Div(UncertaintyAt(k, i), ValueAt(k, i))

\* the same with NaN counted as +infinity
FractionAt(k, i) == IF IsNaN(RawFractionAt(k, i)) THEN PInf ELSE RawFractionAt(k, i)

Least(S) == CHOOSE k \in S : \A j \in S : k <= j

Listed == 1..Len(args.methods)

\* C1: in `preference` mode the merged value at every element i is the value
\* at i of the first listed method whose value at i is finite, and it is
\* non-finite only when no listed method has a finite value at i.
C1_PreferenceFirstFinite ==
    ChoseBy("preference") =>
        \A i \in Idx :
            LET finite == {k \in Listed : IsFinite(ValueAt(k, i))}
            IN IF finite = {} THEN ~IsFinite(merged[i])
               ELSE merged[i] = ValueAt(Least(finite), i)

\* methods = [A, B]: at one element A is missing and B's value is taken, at
\* another both are finite and differ and A's value is kept
C1_Witness ==
    /\ ChoseBy("preference")
    /\ args.methods = <<"A", "B">>
    /\ \E i \in Idx : /\ ~IsFinite(ValueAt(1, i))
                      /\ IsFinite(ValueAt(2, i))
                      /\ merged[i] = ValueAt(2, i)
    /\ \E i \in Idx : /\ IsFinite(ValueAt(1, i))
                      /\ IsFinite(ValueAt(2, i))
                      /\ ValueAt(1, i) # ValueAt(2, i)
                      /\ merged[i] = ValueAt(1, i)

\* the listed methods whose fractional uncertainty at i no other one undercuts
MostPrecise(i) ==
    {k \in Listed : \A j \in Listed : ~Less(FractionAt(j, i), FractionAt(k, i))}

\* C2: in `precision` mode the merged value at every element i is the value of
\* the listed method with the smallest fractional uncertainty at i, the
\* earliest in the list among those that tie for the smallest.
C2_PrecisionSmallestFraction ==
    ChoseBy("precision") =>
        \A i \in Idx : merged[i] = ValueAt(Least(MostPrecise(i)), i)

\* methods = [A, B]: at one element B is strictly more precise and taken, at
\* another the two tie with different values and A is kept
C2_Witness ==
    /\ ChoseBy("precision")
    /\ args.methods = <<"A", "B">>
    /\ \E i \in Idx : /\ Less(FractionAt(2, i), FractionAt(1, i))
                      /\ ValueAt(1, i) # ValueAt(2, i)
                      /\ merged[i] = ValueAt(2, i)
    /\ \E i \in Idx : /\ FractionAt(1, i) = FractionAt(2, i)
                      /\ IsFinite(FractionAt(1, i))
                      /\ ValueAt(1, i) # ValueAt(2, i)
                      /\ merged[i] = ValueAt(1, i)

\* C3: a call with a nonempty `methods` list, in either mode, hands the merged
\* array of N elements back to its caller.
C3_ReturnsMerged ==
    (\E how \in Modes : ChoseBy(how)) => returned = ArrayRet(merged)

\* the merged value at i is the value of a listed method whose fractional
\* uncertainty at i is not NaN
TakenFromNonNaN(i) ==
    \E k \in Listed : ~IsNaN(RawFractionAt(k, i)) /\ merged[i] = ValueAt(k, i)

-----------------------------------------------------------------------------
(* the accessors: what a call returns and what it leaves behind *)

AccessorNames == {"semimajoraxis", "a_over_rs", "e", "omega", "b",
                  "transit_depth", "transit_duration", "kludge_mass",
                  "kludge_radius", "kludge_age", "insolation", "teq"}

\* the accessor `name` applied to a population
Accessor(name, table) ==
    CASE name = "semimajoraxis" -> semimajoraxis(table)
      [] name = "a_over_rs" -> a_over_rs(table)
      [] name = "e" -> e(table)
      [] name = "omega" -> omega(table)
      [] name = "b" -> b(table)
      [] name = "transit_depth" -> transit_depth(table)
      [] name = "transit_duration" -> transit_duration(table)
      [] name = "kludge_mass" -> kludge_mass(table)
      [] name = "kludge_radius" -> kludge_radius(table)
      [] name = "kludge_age" -> kludge_age(table)
      [] name = "insolation" -> insolation(table)
      [] name = "teq" -> teq(table)

\* the table column each gap-filling accessor starts from
Primary ==
    [semimajoraxis |-> "semimajoraxis", a_over_rs |-> "transit_ar",
     e |-> "eccentricity", omega |-> "omega", b |-> "transit_b",
     transit_depth |-> "transit_depth", transit_duration |-> "transit_duration",
     kludge_mass |-> "mass", kludge_radius |-> "radius",
     kludge_age |-> "stellar_age"]

GapFilling == DOMAIN Primary

\* the last call was a gap-filling accessor and it returned an array
Filled == called \in GapFilling /\ returned.kind = "array"

\* the number of non-finite elements of an array
Gaps(x) == Cardinality({i \in DOMAIN x : ~IsFinite(x[i])})

\* C5: no call of an accessor of planetary.py, _choose_calculation included,
\* changes the standardized table: after every step each column holds exactly
\* the values it held before.
C5_StoreUntouched == [][standard' = standard]_vars

\* a gap-filling accessor has returned a value for an element the table lacks,
\* and the table still lacks it
C5_Witness ==
    /\ Filled
    /\ \E i \in Idx : /\ IsFinite(returned.data[i])
                      /\ ~IsFinite(standard[Primary[called]][i])

\* C6: an accessor called again on the same population, whatever other
\* accessors were called in between, returns what its first call returned,
\* element for element, missing values included.
C6_SameResultAgain ==
    called = first.name => returned = first.ret

\* the accessor called first has been called again after a different one, and
\* it returned an array with a missing element
C6_Witness ==
    /\ called = first.name
    /\ first.between
    /\ returned.kind = "array"
    /\ \E i \in Idx : ~IsFinite(returned.data[i])
    /\ \E i \in Idx : IsFinite(returned.data[i])

\* C7: the array a gap-filling accessor returns has at most as many non-finite
\* elements as the accessor's primary table column.
C7_GapsNeverGrow ==
    Filled => Gaps(returned.data) <= Gaps(standard[Primary[called]])

\* transit_duration has filled some of the gaps of its column and left others
C7_Witness ==
    /\ Filled
    /\ called = "transit_duration"
    /\ Gaps(returned.data) < Gaps(standard["transit_duration"])
    /\ Gaps(returned.data) > 0

\* the table has every column of the standardized schema other than msini
FullSchema == Cols \ {"msini"} \subseteq DOMAIN standard

\* the population whose every record is record i of `table`
Only(table, i) == [c \in DOMAIN table |-> [j \in Idx |-> table[c][i]]]

\* C8: on a population with the standardized columns every accessor returns
\* an array; a returned array has exactly N elements, and its element i is
\* what the accessor yields for record i, whatever the other records are.
C8_FullLengthAligned ==
    called \in AccessorNames =>
        /\ FullSchema => returned.kind = "array"
        /\ returned.kind = "array" =>
            /\ DOMAIN returned.data = Idx
            /\ \A i \in Idx :
                \E r \in {Accessor(called, Only(standard, i))} :
                    /\ r.ret.kind = "array"
                    /\ r.ret.data[i] = returned.data[i]

\* an accessor whose primary column is entirely missing returned N elements,
\* some of them estimated and some of them missing
C8_Witness ==
    /\ Filled
    /\ Gaps(standard[Primary[called]]) = N
    /\ DOMAIN returned.data = Idx
    /\ \E i \in Idx : ~IsFinite(returned.data[i])
    /\ \E i \in Idx : IsFinite(returned.data[i])

\* C10: omega returns, per element, the table's omega when it is finite, 0
\* degrees when the table's omega is missing and the gap-filled eccentricity
\* is 0, and a non-finite value when the table's omega is missing and the
\* eccentricity is not 0.
C10_OmegaOnlyFillsGaps ==
    (called = "omega" /\ returned.kind = "array") =>
        \E ecc \in {e(standard).ret.data} :
            \A i \in Idx :
                IF IsFinite(standard["omega"][i])
                THEN returned.data[i] = standard["omega"][i]
                ELSE IF ecc[i] = Fx(0)
                     THEN returned.data[i] = Deg(0)
                     ELSE ~IsFinite(returned.data[i])

-----------------------------------------------------------------------------
(* semimajoraxis: the order of its sources *)

\* the three sources of semimajoraxis for record i, in the order of the code
Kepler(i) == NVK3L(standard["stellar_mass"][i], standard["period"][i])
Geometry(i) == Mul(standard["transit_ar"][i], standard["stellar_radius"][i])
HasGeometry == {"transit_ar", "stellar_radius"} \subseteq DOMAIN standard

\* C9: semimajoraxis gives each element the table value when that is finite,
\* otherwise the Kepler's-third-law value when that is finite, otherwise the
\* product of the table's transit_ar and stellar_radius, and a non-finite
\* value when there is none; a later source never replaces a finite earlier
\* one.
C9_SourcesInOrder ==
    (called = "semimajoraxis" /\ returned.kind = "array") =>
        \A i \in Idx :
            returned.data[i] =
                IF IsFinite(standard["semimajoraxis"][i])
                THEN standard["semimajoraxis"][i]
                ELSE IF IsFinite(Kepler(i)) \/ ~HasGeometry
                     THEN Kepler(i)
                     ELSE Geometry(i)

\* one element comes from Kepler's law although the geometry gives another
\* value, and one comes from the geometry
C9_Witness ==
    /\ called = "semimajoraxis"
    /\ returned.kind = "array"
    /\ HasGeometry
    /\ \E i \in Idx : /\ ~IsFinite(standard["semimajoraxis"][i])
                      /\ IsFinite(Kepler(i))
                      /\ IsFinite(Geometry(i))
                      /\ Geometry(i) # Kepler(i)
                      /\ returned.data[i] = Kepler(i)
    /\ \E i \in Idx : /\ ~IsFinite(standard["semimajoraxis"][i])
                      /\ ~IsFinite(Kepler(i))
                      /\ IsFinite(Geometry(i))
                      /\ returned.data[i] = Geometry(i)

-----------------------------------------------------------------------------
(* e and omega: the assumed circular orbit *)

\* C11: e returns the table eccentricity where it is finite and exactly 0
\* where it is missing, so no element of its result is non-finite; and omega
\* returns exactly 0 degrees for every record whose eccentricity and omega
\* are both missing in the table.
C11_MissingEccentricityIsZero ==
    /\ (called = "e" /\ returned.kind = "array") =>
           \A i \in Idx :
               /\ IsFinite(returned.data[i])
               /\ returned.data[i] = IF IsFinite(standard["eccentricity"][i])
                                     THEN standard["eccentricity"][i]
                                     ELSE Fx(0)
    /\ (called = "omega" /\ returned.kind = "array") =>
           \A i \in Idx :
               (/\ ~IsFinite(standard["eccentricity"][i])
                /\ ~IsFinite(standard["omega"][i])) => returned.data[i] = Deg(0)

\* omega has returned 0 degrees for a record with neither an eccentricity nor
\* an omega, next to a record whose measured eccentricity e would keep
C11_Witness ==
    /\ called = "omega"
    /\ returned.kind = "array"
    /\ \E i \in Idx : /\ ~IsFinite(standard["eccentricity"][i])
                      /\ ~IsFinite(standard["omega"][i])
                      /\ returned.data[i] = Deg(0)
    /\ \E i \in Idx : /\ IsFinite(standard["eccentricity"][i])
                      /\ standard["eccentricity"][i] # Fx(0)
                      /\ e(standard).ret.data[i] = standard["eccentricity"][i]

-----------------------------------------------------------------------------
(* columns absent from the table *)

\* the table columns that an accessor reads in a fallback step only
FallbackOnly ==
    [semimajoraxis |-> {"transit_ar", "stellar_radius"},
     kludge_mass |-> {"msini"},
     b |-> {"inclination"}]

\* the last call was an accessor whose table lacks nothing but columns that
\* only its fallback step reads, and lacks one of those
LacksFallbackColumn ==
    /\ called \in DOMAIN FallbackOnly
    /\ Cols \ DOMAIN standard # {}
    /\ Cols \ DOMAIN standard \subseteq FallbackOnly[called]

\* C12: a gap-filling accessor whose table lacks a column that only one of
\* its fallback steps reads does not raise: it returns its array of N
\* elements, as semimajoraxis does without transit_ar or stellar_radius,
\* kludge_mass without msini and b without inclination.
C12_AbsentColumnSkipped ==
    LacksFallbackColumn =>
        /\ returned.kind = "array"
        /\ DOMAIN returned.data = Idx

-----------------------------------------------------------------------------
(* _choose_calculation: units *)

\* some listed method carries a unit that does not convert to another's
MixedUnits ==
    \E j, k \in Listed : UnitOf(estimates, args.methods[j]) #
                         UnitOf(estimates, args.methods[k])

-----------------------------------------------------------------------------
(* create_standardardized: values and limits *)

Ingested == called = "create_standardardized" /\ returned.kind = "table"

\* the standardized table has the column and its element i is finite
FiniteAt(col, i) == col \in DOMAIN standard /\ IsFinite(standard[col][i])

\* the limit flag that the raw table gives to the planet of standardized row i
FlagOf(i) ==
    raw["pl_orbperlim"][CHOOSE j \in Idx : raw["pl_name"][j] = standard["name"][i]]

\* C14: in the table that create_standardardized builds, for a quantity
\* ingested with errors and limits and for every record, the value and its
\* two uncertainties are finite only where the raw limit flag is 0, the lower
\* limit only where it is -1 and the upper limit only where it is +1, so at
\* most one of the value, the lower limit and the upper limit is finite.
C14_ValueOrLimit ==
    Ingested =>
        \A i \in Idx :
            /\ FiniteAt("period", i) => FlagOf(i) = Fx(0)
            /\ FiniteAt("period_uncertainty_upper", i) => FlagOf(i) = Fx(0)
            /\ FiniteAt("period_uncertainty_lower", i) => FlagOf(i) = Fx(0)
            /\ FiniteAt("period_lower_limit", i) => FlagOf(i) = Fx(-1)
            /\ FiniteAt("period_upper_limit", i) => FlagOf(i) = Fx(1)
            /\ Cardinality({c \in {"period", "period_lower_limit", "period_upper_limit"} :
                               FiniteAt(c, i)}) <= 1

\* a table sorted into another order than the raw one, with a measured value
\* in one record and an upper limit in another
C14_Witness ==
    /\ Ingested
    /\ raw["pl_name"] # standard["name"]
    /\ \E i \in Idx : FiniteAt("period", i) /\ ~FiniteAt("period_upper_limit", i)
    /\ \E i \in Idx : FiniteAt("period_upper_limit", i) /\ ~FiniteAt("period", i)

-----------------------------------------------------------------------------
(* create_standardardized: references *)

\* the raw row of the planet of standardized row i
RawRowOf(i) == CHOOSE j \in Idx : raw["pl_name"][j] = standard["name"][i]

\* the value columns hold the raw table's data, row for row
ValuesIngested ==
    /\ {"name", "ra", "period"} \subseteq DOMAIN standard
    /\ \A i \in Idx :
        /\ standard["ra"][i] = raw["ra"][RawRowOf(i)]
        /\ standard["period"][i] = raw["pl_orbper"][RawRowOf(i)]

\* get_references fails for the period, or an entry of its reference column
\* is not the archive's markup
ReferencesFail ==
    \/ ReferenceColumn(label, "pl_orbper") \notin DOMAIN raw
    \/ \E i \in Idx : raw[ReferenceColumn(label, "pl_orbper")][i] # Markup

\* some record of the raw table has a measured period
PeriodMeasured == \E i \in Idx : raw["pl_orbperlim"][i] = Fx(0)

\* C20: when get_references fails for a raw column, or an entry of the
\* reference column cannot be parsed, create_standardardized still returns
\* the table with its value columns populated, and the column of references
\* is absent or holds the empty pair for that entry.
C20_ReferencesNeverAbort ==
    (called = "create_standardardized" /\ ReferencesFail /\ PeriodMeasured) =>
        /\ returned.kind = "table"
        /\ ValuesIngested
        /\ "period_reference" \in DOMAIN standard =>
               \A i \in Idx :
                   raw[ReferenceColumn(label, "pl_orbper")][RawRowOf(i)] # Markup
                       => standard["period_reference"][i] = << <<>>, <<>> >>

-----------------------------------------------------------------------------
(* Exoplanets.__getitem__: the hidden table follows the subset *)

\* the subset's table of individual references holds only rows of the
\* original's whose host is the host of a planet of the subset
OnlyHostsOfSubset ==
    \A i \in DOMAIN subset.individual_references :
        /\ subset.individual_references[i].hostname
               \in Unique(subset.standard["hostname"])
        /\ \E j \in DOMAIN individual_references :
               individual_references[j] = subset.individual_references[i]

-----------------------------------------------------------------------------
(* The accessors call by call *)

\* the deepest nesting of accessor calls that is followed
MaxDepth == 6

\* a variant: semimajoraxis taking a/R* from the accessor a_over_rs
semimajoraxis_calls_a_over_rs == <<"a_over_rs">>

\* the accessors that semimajoraxis calls (lines 124-160): none; period and
\* stellar_mass are table columns, and transit_ar and stellar_radius are read
\* from self.standard (lines 154-155)
semimajoraxis_calls == <<>>

\* the accessors that the body of each accessor calls, in the order of its
\* statements
CallSites ==
    [semimajoraxis |-> semimajoraxis_calls,
     a_over_rs |-> <<"semimajoraxis">>,
     e |-> <<>>,
     omega |-> <<"e">>,
     b |-> <<"a_over_rs", "e", "omega">>,
     impact_parameter |-> <<"b">>,
     transit_depth |-> <<>>,
     transit_duration |-> <<"a_over_rs", "impact_parameter", "e", "omega">>,
     kludge_mass |-> <<>>,
     kludge_radius |-> <<"kludge_mass">>,
     kludge_age |-> <<>>,
     insolation |-> <<"semimajoraxis">>,
     teq |-> <<"insolation">>]

\* the call in progress that is running
Top == stack[Len(stack)]

\* an access to the property `name` of the population: nothing is returned
\* until it is through
Resolve ==
    \E name \in DOMAIN CallSites :
        /\ stack = <<>>
        /\ stack' = <<[name |-> name, next |-> 1]>>
        /\ called' = "-"
        /\ returned' = NoneRet
        /\ UNCHANGED <<standard, estimates, args, merged, first, archive>>

\* the running accessor reaches its next call of an accessor
Enter ==
    /\ stack # <<>>
    /\ Top.next <= Len(CallSites[Top.name])
    /\ Len(stack) < MaxDepth
    /\ stack' = Append([stack EXCEPT ![Len(stack)].next = @ + 1],
                       [name |-> CallSites[Top.name][Top.next], next |-> 1])
    /\ UNCHANGED <<standard, estimates, called, args, returned, merged, first,
                   archive>>

\* the running accessor has made its calls, and its call is over
Over ==
    /\ stack # <<>>
    /\ Top.next > Len(CallSites[Top.name])
    /\ stack' = SubSeq(stack, 1, Len(stack) - 1)

\* the running accessor returns: to the accessor that called it, or with the
\* result of the access
Return ==
    /\ Over
    /\ IF Len(stack) = 1
       THEN \E r \in {IF Top.name = "impact_parameter"
                      THEN impact_parameter(standard)
                      ELSE Accessor(Top.name, standard)} :
                /\ called' = Top.name
                /\ returned' = r.ret
                /\ standard' = r.st
       ELSE UNCHANGED <<called, returned, standard>>
    /\ UNCHANGED <<estimates, args, merged, first, archive>>

\* the accessors on every population that has all its columns
InitCalls ==
    /\ standard \in {TableOf(rows, {}) : rows \in [Idx -> Planets]}
    /\ estimates = SomeEstimates
    /\ args = NoArgs
    /\ NotCalled
    /\ Given

NextCalls == Resolve \/ Enter \/ Return

\* a call in progress runs on: Python executes the next statement, and an
\* accessor that is over returns, whatever it returns
SpecCalls ==
    InitCalls /\ [][NextCalls]_vars /\ WF_stack(Enter) /\ WF_stack(Over)

\* no accessor is in progress twice
NoReentry == \A i, j \in 1..Len(stack) : stack[i].name = stack[j].name => i = j

\* C16: resolving any accessor of planetary.py terminates, and no accessor
\* is entered again while a call of it is in progress: the calls among the
\* accessors form no cycle, semimajoraxis calling none of them.
C16_ResolvingTerminates ==
    /\ []NoReentry
    /\ (stack # <<>>) ~> (stack = <<>>)

\* transit_duration -> impact_parameter -> b -> a_over_rs -> semimajoraxis
C16_Witness ==
    /\ Len(stack) = 5
    /\ stack[1].name = "transit_duration"
    /\ stack[3].name = "b"
    /\ stack[4].name = "a_over_rs"
    /\ stack[5].name = "semimajoraxis"

-----------------------------------------------------------------------------
(* The kludged age *)

\* C19: kludge_age returns the table's stellar_age wherever it is finite and
\* exactly 5 Gyr wherever it is not, so that no element of what it returns
\* is non-finite.
C19_AgeNeverMissing ==
    called = "kludge_age" /\ "stellar_age" \in DOMAIN standard =>
        /\ returned.kind = "array"
        /\ DOMAIN returned.data = Idx
        /\ \A i \in Idx :
            /\ IsFinite(standard["stellar_age"][i]) =>
                   returned.data[i] = standard["stellar_age"][i]
            /\ ~IsFinite(standard["stellar_age"][i]) =>
                   returned.data[i] = Fx(AssumedAge)
            /\ IsFinite(returned.data[i])

\* a population with a known age and a missing one: the one kept, the other 5
C19_Witness ==
    /\ called = "kludge_age"
    /\ returned.kind = "array"
    /\ \E i, j \in Idx :
        /\ ~IsFinite(standard["stellar_age"][i])
        /\ returned.data[i] = Fx(AssumedAge)
        /\ IsFinite(standard["stellar_age"][j])
        /\ returned.data[j] = standard["stellar_age"][j]
        /\ returned.data[j] # Fx(AssumedAge)

-----------------------------------------------------------------------------
(* The kludged mass and radius *)

\* the mass of record i as it is tabulated, and failing that its minimum mass,
\* missing where the population has none
MassOrMinimum(i) ==
    IF IsFinite(standard["mass"][i]) THEN standard["mass"][i]
    ELSE IF "msini" \in DOMAIN standard THEN standard["msini"][i]
    ELSE NaN

\* C18: kludge_mass returns the table's mass where it is finite and msini
\* elsewhere, NaN where msini is missing or cannot be had, and does not
\* raise; kludge_radius returns the table's radius where it is finite and
\* elsewhere the mass-radius estimate of the kludged mass of the same record.
C18_MassThenMinimumMass ==
    /\ called = "kludge_mass" /\ "mass" \in DOMAIN standard =>
        /\ returned.kind = "array"
        /\ DOMAIN returned.data = Idx
        /\ \A i \in Idx : returned.data[i] = MassOrMinimum(i)
    /\ called = "kludge_radius" /\ {"radius", "mass"} \subseteq DOMAIN standard =>
        /\ returned.kind = "array"
        /\ DOMAIN returned.data = Idx
        /\ \A i \in Idx :
            returned.data[i] =
                IF IsFinite(standard["radius"][i]) THEN standard["radius"][i]
                ELSE estimate_radius(MassOrMinimum(i))

\* a record with neither radius nor mass but a minimum mass got the radius
\* estimated from its minimum mass
C18_Witness ==
    /\ called = "kludge_radius"
    /\ returned.kind = "array"
    /\ "msini" \in DOMAIN standard
    /\ \E i \in Idx :
        /\ ~IsFinite(standard["radius"][i])
        /\ ~IsFinite(standard["mass"][i])
        /\ IsFinite(standard["msini"][i])
        /\ returned.data[i] = estimate_radius(standard["msini"][i])
        /\ IsFinite(returned.data[i])

-----------------------------------------------------------------------------
(* The transit duration *)

\* what the computation of the duration of record i takes in: the period and
\* the gap-filled a/R*, impact parameter, eccentricity and omega
DurationInputs(i) ==
    [period |-> standard["period"][i],
     a_over_rs |-> a_over_rs(standard).ret.data[i],
     b |-> impact_parameter(standard).ret.data[i],
     e |-> e(standard).ret.data[i],
     omega |-> omega(standard).ret.data[i]]

\* an input is missing, or the planet misses the star (b > 1)
Degenerate(in) ==
    \/ \E k \in DOMAIN in : ~IsFinite(in[k])
    \/ Less(Fx(1), in.b)

\* C17: on a population with the standardized columns transit_duration raises
\* nothing; it keeps every finite table duration, returns NaN for a record
\* whose duration is missing and whose inputs are degenerate (b > 1, or an
\* input missing), and at every record returns what it returns for that
\* record alone.
C17_DegenerateIsNaN ==
    called = "transit_duration" /\ FullSchema =>
        /\ returned.kind = "array"
        /\ DOMAIN returned.data = Idx
        /\ \A i \in Idx :
            /\ IsFinite(standard["transit_duration"][i]) =>
                   returned.data[i] = standard["transit_duration"][i]
            /\ \E in \in {DurationInputs(i)} :
                   ~IsFinite(standard["transit_duration"][i]) /\ Degenerate(in) =>
                       returned.data[i] = NaN
            /\ \E r \in {transit_duration(Only(standard, i))} :
                   /\ r.ret.kind = "array"
                   /\ r.ret.data[i] = returned.data[i]

\* two records without a tabulated duration: one misses the star and got
\* NaN, the other has all its inputs and got a duration
C17_Witness ==
    /\ called = "transit_duration"
    /\ FullSchema
    /\ returned.kind = "array"
    /\ \E i, j \in Idx :
        /\ ~IsFinite(standard["transit_duration"][i])
        /\ Less(Fx(1), impact_parameter(standard).ret.data[i])
        /\ returned.data[i] = NaN
        /\ ~IsFinite(standard["transit_duration"][j])
        /\ ~Degenerate(DurationInputs(j))
        /\ IsFinite(returned.data[j])

=============================================================================
